---- MODULE Spec2Model ----
(***************************************************************************)
(* A model of source-map-support.ts: the file-contents cache, the          *)
(* source-map cache, the source map locator, the position mapper, the      *)
(* frame rewriter and the trace assembler.                                  *)
(*                                                                         *)
(* Strings that are paths or URLs are kept as the sequence of their        *)
(* "/"-separated segments (what String.prototype.split("/") returns):      *)
(*   "/app/a.js"        is  <<"", "app", "a.js">>                          *)
(*   "a.js.map"         is  <<"a.js.map">>                                 *)
(*   "file:///app/a.js" is  <<"file:", "", "", "app", "a.js">>             *)
(*   ""                 is  <<"">>                                         *)
(* File contents are named by an identifier; Text, the map tables and      *)
(* Lines give what the code reads out of them.                             *)
(***************************************************************************)
EXTENDS Integers, Sequences, FiniteSets, TLC

VARIABLES
  stackTracePrepared,           \* line 27
  requireHooked,                \* line 30
  uncaughtExceptionsHandled,    \* line 33
  emptyCacheBetweenOperations,  \* line 36
  customRetrieveSourceMap,      \* line 39: "default" or the installed override
  customRetrieveFile,           \* line 44
  customPathSanitize,           \* line 49
  customStackFilter,            \* line 55
  fileContentsCache,            \* line 60: path -> contents or null
  sourceMapCache,               \* line 63: path -> undefined, null or {url, map}
  fetchCount,                   \* customRetrieveFile calls made so far, per path
  retrieveCount,                \* customRetrieveSourceMap calls made so far, per file
  processVersion,               \* process.version, fixed for a run
  registrations,                \* how often install() has set Error.prepareStackTrace,
                                \* wrapped Module.prototype._compile, wrapped process.emit
  lastOp                        \* the operation that ran last: its inputs, what it returned, what it called

vars == <<stackTracePrepared, requireHooked, uncaughtExceptionsHandled,
          emptyCacheBetweenOperations, customRetrieveSourceMap, customRetrieveFile,
          customPathSanitize, customStackFilter, fileContentsCache, sourceMapCache,
          fetchCount, retrieveCount, processVersion, registrations, lastOp>>

config == <<stackTracePrepared, requireHooked, uncaughtExceptionsHandled,
            emptyCacheBetweenOperations, customRetrieveSourceMap, customRetrieveFile,
            customPathSanitize, customStackFilter, processVersion, registrations>>

----------------------------------------------------------------------------
(* JavaScript's null and undefined, for each kind of value.                *)

Null == <<"<null>">>             \* null where a string (path, URL) is expected
Undefined == <<"<undefined>">>   \* undefined where a string is expected
NullContent == "<null>"          \* null where file contents are expected
NullName == "<null>"             \* null where a name is expected
NoNumber == -1                   \* null where a line or column is expected

----------------------------------------------------------------------------
(* Bounds of the model.                                                    *)

MaxFrames == 2     \* longest stack handed to prepareStackTrace
MaxCalls == 2      \* most calls of a fetch hook for one path

----------------------------------------------------------------------------
(* The environment: the working directory, the files on disk.              *)

Cwd == <<"", "cwd">>

A == <<"", "app", "a.js">>
FA == <<"file:", "", "", "app", "a.js">>
B == <<"", "app", "b.js">>
C == <<"", "app", "c.js">>
CPadded == <<"", "app", "c.js ">>
D == <<"", "app", "d.js">>
E == <<"", "app", "e.js">>
F == <<"", "app", "f.js">>
K == <<"", "app", "k.js">>
G == <<"", "app", "g.js">>
H == <<"", "app", "h.js">>
M == <<"", "app", "missing.js">>
DataE == <<"data:application", "json;base64,mapE">>

\* fs.readFileSync(path, 'utf8'), or NullContent where it throws
Disk(path) ==
  CASE path = A -> "jsA"
    [] path = <<"", "app", "a.js.map">> -> "mapA"
    [] path = B -> "jsB"
    [] path = <<"", "app", "b.js.map">> -> "mapB"
    [] path = C -> "jsC"
    [] path = D -> "jsD"
    [] path = <<"", "app", "d.js.map">> -> "garbage"
    [] path = E -> "jsE"
    [] path = <<"", "app", "e.ts">> -> "tsE"
    [] path = F -> "jsF"
    [] path = K -> "jsK"
    [] path = <<"", "app", "k.js.map">> -> "mapK"
    [] path = G -> "jsG"
    [] path = H -> "jsH"
    [] path = <<"", "app", "h.js.map">> -> "mapH"
    [] OTHER -> NullContent

\* The lines of a generated file that matter to the magic-comment scan, in
\* file order.  form: "code", "line" (//# ...), "legacy" (//@ ...),
\* "block" (/*# ... */) or "quoted" (the comment text inside a string
\* literal, closed by a quote on the same line).
Tok(form, url) == [form |-> form, url |-> url]

Text(contents) ==
  CASE contents = "jsA" -> <<Tok("code", Null), Tok("quoted", <<"x.map">>),
                             Tok("line", <<"a.js.map">>)>>
    [] contents = "jsA2" -> <<Tok("code", Null), Tok("line", <<"a.js.map">>)>>
    [] contents = "jsB" -> <<Tok("code", Null), Tok("block", <<"b.js.map">>)>>
    [] contents = "jsC" -> <<Tok("code", Null)>>
    [] contents = "jsCinline" -> <<Tok("code", Null), Tok("line", DataE)>>
    [] contents = "jsD" -> <<Tok("code", Null), Tok("line", <<"d.js.map">>)>>
    [] contents = "jsE" -> <<Tok("block", <<"stale.map">>), Tok("code", Null),
                             Tok("line", <<"old.map">>), Tok("legacy", DataE)>>
    [] contents = "jsF" -> <<Tok("line", <<"a.js.map">>), Tok("code", Null),
                             Tok("block", <<"f.js.map">>)>>
    [] contents = "jsK" -> <<Tok("code", Null), Tok("line", <<"k.js.map">>)>>
    [] contents = "jsG" -> <<Tok("code", Null), Tok("line", <<"gone.map">>)>>
    [] contents = "jsH" -> <<Tok("code", Null), Tok("line", <<"h.js.map">>)>>
    [] OTHER -> <<>>

----------------------------------------------------------------------------
(* String and path primitives (String.prototype, node's posix path).       *)

\* a + b on strings kept as segment sequences
StrCat(a, b) == SubSeq(a, 1, Len(a) - 1) \o <<a[Len(a)] \o b[1]>> \o Tail(b)

\* String.prototype.trim, on the first and the last segment
TrimSeg(s) ==
  CASE s = "c.js " -> "c.js"
    [] s = " " -> ""
    [] OTHER -> s

Trim(p) == [i \in 1..Len(p) |-> IF i = 1 \/ i = Len(p) THEN TrimSeg(p[i]) ELSE p[i]]

\* a segment that starts with \w: (a drive letter)
IsDriveSeg(s) == s \in {"C:"}

\* a segment that is \w+: (a URL scheme)
IsSchemeSeg(s) == s \in {"file:", "http:"}

IsAbsolute(p) == Len(p) >= 2 /\ p[1] = ""

NonEmptySegs(p) == SelectSeq(p, LAMBDA s : s # "")

RECURSIVE NormalizeSegs(_, _)
NormalizeSegs(todo, done) ==
  IF todo = <<>> THEN done
  ELSE LET s == Head(todo) IN
       IF s = "." THEN NormalizeSegs(Tail(todo), done)
       ELSE IF s = ".."
            THEN NormalizeSegs(Tail(todo),
                               IF done = <<>> THEN done ELSE SubSeq(done, 1, Len(done) - 1))
            ELSE NormalizeSegs(Tail(todo), Append(done, s))

\* path.resolve(from, to)
pathResolve(from, to) ==
  LET chain == IF IsAbsolute(to) THEN NonEmptySegs(to)
               ELSE IF IsAbsolute(from) THEN NonEmptySegs(from) \o NonEmptySegs(to)
               ELSE NonEmptySegs(Cwd) \o NonEmptySegs(from) \o NonEmptySegs(to)
      n == NormalizeSegs(chain, <<>>)
  IN IF n = <<>> THEN <<"", "">> ELSE <<"">> \o n

\* path.dirname(file)
pathDirname(p) ==
  IF Len(p) = 1 THEN <<".">>
  ELSE IF Len(p) = 2 /\ p[1] = "" THEN <<"", "">>
  ELSE SubSeq(p, 1, Len(p) - 1)

----------------------------------------------------------------------------
(* pathSanitize, retrieveFile, supportRelativeURL                          *)

pathSanitize(path) ==
  LET p == Trim(path) IN
  IF p[1] = "file:" /\ Len(p) >= 4 /\ p[2] = "" /\ p[3] = ""
  THEN IF IsDriveSeg(p[4])
       THEN <<"">> \o SubSeq(p, 5, Len(p))
       ELSE <<"">> \o SubSeq(p, 4, Len(p))
  ELSE p

retrieveFile(path) == Disk(path)

supportRelativeURL(file, url) ==
  IF file = Null THEN url
  ELSE LET dir == pathDirname(file)
           hasProtocol == Len(dir) >= 3 /\ IsSchemeSeg(dir[1]) /\ dir[2] = ""
           protocol == IF hasProtocol THEN SubSeq(dir, 1, 3) ELSE <<"">>
           startPath == IF ~hasProtocol THEN dir
                        ELSE IF Len(dir) = 3 THEN <<"">>
                        ELSE <<"">> \o SubSeq(dir, 4, Len(dir))
       IN IF hasProtocol /\ Len(dir) >= 4 /\ IsDriveSeg(dir[4])
          THEN StrCat(StrCat(protocol, <<"", "">>),
                      pathResolve(SubSeq(dir, 4, Len(dir)), url))
          ELSE StrCat(protocol, pathResolve(startPath, url))

----------------------------------------------------------------------------
(* The source-map library: new SourceMapConsumer(payload), consumer.sources, *)
(* consumer.sourceContentFor, consumer.originalPositionFor.                  *)

Seg(gl, gc, source, ol, oc, name) ==
  [gl |-> gl, gc |-> gc, source |-> source, ol |-> ol, oc |-> oc, name |-> name]

\* payloads that parse as a version 3 source map
IsValidMap(payload) == payload \in {"mapA", "mapB", "mapE", "mapH", "mapK"}

MapSources(payload) ==
  CASE payload = "mapA" -> << <<"a.ts">> >>
    [] payload = "mapB" -> << <<"b.ts">> >>
    [] payload = "mapE" -> << <<"e.ts">> >>
    [] payload = "mapH" -> << <<"h.ts">> >>
    [] payload = "mapK" -> << <<"a.js">>, <<"lib", "k.ts">> >>
    [] OTHER -> <<>>

\* sourcesContent: the text embedded for a source, or null
sourceContentFor(payload, source) ==
  CASE payload = "mapA" /\ source = <<"a.ts">> -> "tsA"
    [] payload = "mapK" /\ source = <<"a.js">> -> "jsA"
    [] OTHER -> NullContent

\* the decoded mappings; a segment with source Null maps to no source
Mappings(payload) ==
  CASE payload = "mapA" -> { Seg(1, 0, <<"a.ts">>, 10, 4, "realFn"),
                             Seg(2, 0, <<"a.ts">>, 20, 2, NullName),
                             Seg(2, 8, <<"a.ts">>, 21, 0, "helper"),
                             Seg(3, 0, Null, NoNumber, NoNumber, NullName) }
    [] payload = "mapB" -> { Seg(1, 0, <<"b.ts">>, 1, 0, NullName) }
    [] payload = "mapE" -> { Seg(1, 0, <<"e.ts">>, 5, 0, "inner") }
    [] payload = "mapH" -> { Seg(1, 0, <<"h.ts">>, 1, 0, NullName),
                             Seg(1, 7, <<"h.ts">>, 2, 10, NullName),
                             Seg(1, 62, <<"h.ts">>, 3, 20, NullName),
                             Seg(1, 69, <<"h.ts">>, 4, 30, NullName),
                             Seg(2, 69, <<"h.ts">>, 5, 40, NullName) }
    [] payload = "mapK" -> { Seg(1, 0, <<"a.js">>, 1, 0, "fromBundle"),
                             Seg(2, 0, <<"lib", "k.ts">>, 7, 3, NullName) }
    [] OTHER -> {}

NoOriginal == [source |-> Null, line |-> NoNumber, column |-> NoNumber, name |-> NullName]

\* the segment of the line with the greatest generated column <= column
originalPositionFor(payload, line, column) ==
  LET cands == {s \in Mappings(payload) : s.gl = line /\ s.gc <= column} IN
  IF cands = {} THEN NoOriginal
  ELSE LET best == CHOOSE s \in cands : \A t \in cands : t.gc <= s.gc IN
       IF best.source = Null THEN NoOriginal
       ELSE [source |-> best.source, line |-> best.ol, column |-> best.oc,
             name |-> best.name]

\* Buffer.from(rawData, 'base64').toString() of the text after the first comma
Base64Payload(url) ==
  CASE url = DataE -> "mapE"
    [] OTHER -> "garbage"

\* reSourceMap.test(url): /^data:application\/json[^,]+base64,/
reSourceMapTest(url) ==
  /\ Len(url) = 2
  /\ url[1] = "data:application"
  /\ url[2] \in {"json;base64,mapE", "json;charset=utf-8;base64,mapE"}

----------------------------------------------------------------------------
(* The overrides a caller can hand to install().                           *)

\* options.retrieveFile: an in-memory store that knows two files
UserRetrieveFile(path) ==
  CASE path = C -> "jsCinline"
    [] path = A -> "jsA"
    [] OTHER -> NullContent

\* options.pathSanitize: leaves the path as it is
UserPathSanitize(path) == path

\* options.retrieveSourceMap: knows the map of one file
UserRetrieveSourceMap(source) ==
  IF source = C THEN [url |-> C, map |-> "mapE"]
  ELSE [url |-> Null, map |-> NullContent]

\* options.stackFilter: leaves the traces of TypeErrors alone
UserStackFilter(err, stackTraces) == err.name # "TypeError"

----------------------------------------------------------------------------
(* The caches.  An operator that reads or writes them takes the caches as   *)
(* the record m and returns them in the field m of its result; a call that  *)
(* can throw also returns threw.  What a call returned is handed on as the  *)
(* argument r (u, d, w ...) of the operator that models the lines after it. *)

Put(f, k, v) == IF k \in DOMAIN f THEN [f EXCEPT ![k] = v] ELSE (k :> v) @@ f

Bump(f, k) == IF k \in DOMAIN f THEN [f EXCEPT ![k] = @ + 1] ELSE (k :> 1) @@ f

CallRetrieveFile(path) ==
  IF customRetrieveFile = "default" THEN retrieveFile(path) ELSE UserRetrieveFile(path)

CallPathSanitize(path) ==
  IF customPathSanitize = "default" THEN pathSanitize(path) ELSE UserPathSanitize(path)

\* lines 156-158: the fetch, remembered
Fetched(m, p, contents) ==
  [m |-> [m EXCEPT !.fcc = Put(@, p, contents),
                   !.fetchCount = Bump(@, p),
                   !.fetchLog = Append(@, p)],
   ret |-> contents]

\* CachedOrFetched without the test of line 153
FetchedEveryTime(m, p) == Fetched(m, p, CallRetrieveFile(p))

\* lines 153-158, for the sanitized path p
CachedOrFetched(m, p) ==
  IF p \in DOMAIN m.fcc
  THEN [m |-> m, ret |-> m.fcc[p]]
  ELSE Fetched(m, p, CallRetrieveFile(p))

retrieveFileCached(m, path) == CachedOrFetched(m, CallPathSanitize(path))

IsMagicComment(tok) == tok.form \in {"line", "legacy", "block"}

\* lastMatch[1]: the first capture group, which only the line form fills
Group1(tok) == IF tok.form \in {"line", "legacy"} THEN tok.url ELSE Undefined

\* lines 180-189, with r the file data
LastSourceMappingURL(r) ==
  IF r.ret = NullContent THEN [m |-> r.m, ret |-> Null]
  ELSE IF SelectSeq(Text(r.ret), IsMagicComment) = <<>> THEN [m |-> r.m, ret |-> Null]
  ELSE [m |-> r.m,
        ret |-> Group1(SelectSeq(Text(r.ret), IsMagicComment)
                         [Len(SelectSeq(Text(r.ret), IsMagicComment))])]

retrieveSourceMapURL(m, source) == LastSourceMappingURL(retrieveFileCached(m, source))

NoRaw == [url |-> Null, map |-> NullContent]

\* RawSourceMap without the test of lines 214-216
RawSourceMapUnchecked(url, d) ==
  [m |-> d.m, ret |-> [url |-> url, map |-> d.ret], threw |-> FALSE]

\* lines 214-221, with d the text fetched from url
RawSourceMap(url, d) ==
  IF d.ret = NullContent
  THEN [m |-> d.m, ret |-> NoRaw, threw |-> FALSE]
  ELSE [m |-> d.m, ret |-> [url |-> url, map |-> d.ret], threw |-> FALSE]

\* lines 199-221, with u the sourceMappingURL found;
\* threw: path.resolve(dir, undefined) throws a TypeError
ReadSourceMap(source, u) ==
  IF u.ret = Null THEN [m |-> u.m, ret |-> NoRaw, threw |-> FALSE]
  ELSE IF reSourceMapTest(u.ret)
       THEN [m |-> u.m, ret |-> [url |-> source, map |-> Base64Payload(u.ret)],
             threw |-> FALSE]
       ELSE IF u.ret = Undefined
            THEN [m |-> u.m, ret |-> NoRaw, threw |-> TRUE]
            ELSE RawSourceMap(supportRelativeURL(source, u.ret),
                              retrieveFileCached(u.m, supportRelativeURL(source, u.ret)))

retrieveSourceMap(m, source) == ReadSourceMap(source, retrieveSourceMapURL(m, source))

\* the call counted
Counted(m, source) ==
  [m EXCEPT !.retrieveCount = Bump(@, source), !.retrieveLog = Append(@, source)]

CallRetrieveSourceMap(m, source) ==
  IF customRetrieveSourceMap = "default"
  THEN retrieveSourceMap(Counted(m, source), source)
  ELSE [m |-> Counted(m, source), ret |-> UserRetrieveSourceMap(source), threw |-> FALSE]

----------------------------------------------------------------------------
(* mapSourcePosition                                                       *)

UndefinedMap == [kind |-> "undefined", url |-> Null, map |-> NullContent]
NullMap == [kind |-> "null", url |-> Null, map |-> NullContent]
BuiltMap(url, payload) == [kind |-> "map", url |-> url, map |-> payload]

\* sourceMapCache[source]
CachedMap(smc, source) == IF source \in DOMAIN smc THEN smc[source] ELSE UndefinedMap

\* null for a position; a name that is null or undefined is NullName
NullPosition == [source |-> Null, line |-> NoNumber, column |-> NoNumber, name |-> NullName]

\* consumer.sources.forEach: the embedded contents go into the file cache
RECURSIVE LoadInlineSources(_, _, _, _)
LoadInlineSources(fcc, raw, sources, i) ==
  IF i > Len(sources) THEN fcc
  ELSE IF sourceContentFor(raw.map, sources[i]) = NullContent
       THEN LoadInlineSources(fcc, raw, sources, i + 1)
       ELSE LoadInlineSources(Put(fcc, supportRelativeURL(raw.url, sources[i]),
                                  sourceContentFor(raw.map, sources[i])),
                              raw, sources, i + 1)

\* Resolved without the supportRelativeURL of lines 261-262
Unresolved(sourceMap, originalPosition, line, column) ==
  IF originalPosition.source = Null THEN NullPosition
  ELSE [source |-> originalPosition.source, line |-> originalPosition.line,
        column |-> originalPosition.column, name |-> originalPosition.name]

\* lines 261-273, with originalPosition what the consumer returned
Resolved(sourceMap, originalPosition, line, column) ==
  IF originalPosition.source = Null THEN NullPosition
  ELSE [source |-> supportRelativeURL(sourceMap.url, originalPosition.source),
        line |-> IF originalPosition.line = NoNumber THEN line
                 ELSE originalPosition.line,
        column |-> IF originalPosition.column = NoNumber THEN column
                   ELSE originalPosition.column,
        name |-> originalPosition.name]

\* lines 249-273: the lookup in the map found or built
PositionIn(sourceMap, line, column) ==
  IF sourceMap.kind = "null" THEN NullPosition
  ELSE Resolved(sourceMap, originalPositionFor(sourceMap.map, line, column), line, column)

\* CacheSourceMap without the assignment of line 246
CacheSourceMapNoSentinel(r, source, line, column) ==
  IF r.threw THEN [m |-> r.m, ret |-> NullPosition, threw |-> TRUE]
  ELSE IF r.ret # NoRaw
       THEN IF ~IsValidMap(r.ret.map)
            THEN [m |-> r.m, ret |-> NullPosition, threw |-> TRUE]
            ELSE [m |-> [r.m EXCEPT
                           !.smc = Put(@, source, BuiltMap(r.ret.url, r.ret.map)),
                           !.fcc = LoadInlineSources(@, r.ret, MapSources(r.ret.map), 1)],
                  ret |-> PositionIn(BuiltMap(r.ret.url, r.ret.map), line, column),
                  threw |-> FALSE]
       ELSE [m |-> r.m, ret |-> NullPosition, threw |-> FALSE]

\* lines 228-246, with r what customRetrieveSourceMap returned;
\* threw: it threw, or new SourceMapConsumer(payload) did
CacheSourceMap(r, source, line, column) ==
  IF r.threw THEN [m |-> r.m, ret |-> NullPosition, threw |-> TRUE]
  ELSE IF r.ret # NoRaw
       THEN IF ~IsValidMap(r.ret.map)
            THEN [m |-> r.m, ret |-> NullPosition, threw |-> TRUE]
            ELSE [m |-> [r.m EXCEPT
                           !.smc = Put(@, source, BuiltMap(r.ret.url, r.ret.map)),
                           !.fcc = LoadInlineSources(@, r.ret, MapSources(r.ret.map), 1)],
                  ret |-> PositionIn(BuiltMap(r.ret.url, r.ret.map), line, column),
                  threw |-> FALSE]
       ELSE [m |-> [r.m EXCEPT !.smc = Put(@, source, NullMap)],
             ret |-> NullPosition, threw |-> FALSE]

\* mapSourcePosition without the test of line 226
mapSourcePositionUncached(m, source, line, column) ==
  CacheSourceMap(CallRetrieveSourceMap(m, source), source, line, column)

mapSourcePosition(m, source, line, column) ==
  IF CachedMap(m.smc, source).kind = "undefined"
  THEN CacheSourceMap(CallRetrieveSourceMap(m, source), source, line, column)
  ELSE [m |-> m, ret |-> PositionIn(CachedMap(m.smc, source), line, column),
        threw |-> FALSE]

----------------------------------------------------------------------------
(* Rendering: Number.prototype.toString, joining a path back into a string *)

RECURSIVE Join(_)
Join(p) == IF Len(p) = 1 THEN p[1] ELSE p[1] \o "/" \o Join(Tail(p))

\* an eval origin "eval at <l1> (eval at <l2> (... <file>:<line>:<col>))" is
\* kept as its labels, outermost first, and its innermost text: a position,
\* or a text without one (file = Null)
Origin(labels, file, line, column) ==
  [labels |-> labels, file |-> file, line |-> line, column |-> column]

NoOrigin == Origin(<<>>, Null, NoNumber, NoNumber)

RECURSIVE OriginText(_)
OriginText(o) ==
  IF o.labels = <<>>
  THEN IF o.file = Null THEN "<anonymous>"
       ELSE Join(o.file) \o ":" \o ToString(o.line) \o ":" \o ToString(o.column)
  ELSE "eval at " \o Head(o.labels) \o " ("
       \o OriginText([o EXCEPT !.labels = Tail(@)]) \o ")"

\* RebuiltOrigin without the + 1 of line 289
RebuiltOriginSameColumn(origin, r) ==
  IF r.threw THEN [m |-> r.m, ret |-> origin, threw |-> TRUE]
  ELSE IF r.ret = NullPosition THEN [m |-> r.m, ret |-> origin, threw |-> FALSE]
  ELSE [m |-> r.m,
        ret |-> Origin(origin.labels, r.ret.source, r.ret.line, r.ret.column),
        threw |-> FALSE]

\* lines 287-289, with r the position of the innermost coordinates
RebuiltOrigin(origin, r) ==
  IF r.threw THEN [m |-> r.m, ret |-> origin, threw |-> TRUE]
  ELSE IF r.ret = NullPosition THEN [m |-> r.m, ret |-> origin, threw |-> FALSE]
  ELSE [m |-> r.m,
        ret |-> Origin(origin.labels, r.ret.source, r.ret.line, r.ret.column + 1),
        threw |-> FALSE]

\* line 295, with r the nested origin rewritten
Enclosed(label, r) ==
  [m |-> r.m, ret |-> [r.ret EXCEPT !.labels = <<label>> \o @], threw |-> r.threw]

RECURSIVE mapEvalOrigin(_, _)
mapEvalOrigin(m, origin) ==
  IF Len(origin.labels) = 1 /\ origin.file # Null
  THEN RebuiltOrigin(origin,
                     mapSourcePosition(m, origin.file, origin.line, origin.column - 1))
  ELSE IF Len(origin.labels) >= 1
       THEN Enclosed(Head(origin.labels),
                     mapEvalOrigin(m, [origin EXCEPT !.labels = Tail(@)]))
       ELSE [m |-> m, ret |-> origin, threw |-> FALSE]

----------------------------------------------------------------------------
(* Call sites.  A call site is the record of what its accessors return;    *)
(* str is its own toString(), the host's rendering of it.                  *)

CallSite(fileName, line, column, functionName, typeName, methodName, toplevel, str) ==
  [fileName |-> fileName, scriptName |-> fileName, line |-> line, column |-> column,
   native |-> FALSE, eval |-> FALSE, evalOrigin |-> NoOrigin,
   functionName |-> functionName, typeName |-> typeName, methodName |-> methodName,
   toplevel |-> toplevel, ctor |-> FALSE, str |-> str]

CallSiteOf(id) ==
  CASE id = "fA1" -> CallSite(A, 1, 1, "compiledA", NullName, NullName, TRUE,
                              "compiledA (/app/a.js:1:1)")
    [] id = "fA2" -> CallSite(A, 2, 9, "callerFn", "Foo", "run", FALSE,
                              "Foo.callerFn [as run] (/app/a.js:2:9)")
    [] id = "fA2n" -> CallSite(A, 2, 1, NullName, "Object", NullName, FALSE,
                               "Object.<anonymous> (/app/a.js:2:1)")
    [] id = "fA3" -> CallSite(A, 3, 5, "plain", NullName, NullName, TRUE,
                              "plain (/app/a.js:3:5)")
    [] id = "fFA1" -> CallSite(FA, 1, 1, "compiledA", NullName, NullName, TRUE,
                               "compiledA (file:///app/a.js:1:1)")
    [] id = "fB" -> CallSite(B, 1, 1, "inB", NullName, NullName, TRUE, "inB (/app/b.js:1:1)")
    [] id = "fC" -> CallSite(C, 1, 1, "inC", NullName, NullName, TRUE, "inC (/app/c.js:1:1)")
    [] id = "fD" -> CallSite(D, 1, 1, "inD", NullName, NullName, TRUE, "inD (/app/d.js:1:1)")
    [] id = "fH1" -> CallSite(H, 1, 1, "inH", NullName, NullName, TRUE, "inH (/app/h.js:1:1)")
    [] id = "fH63" -> CallSite(H, 1, 63, "inH", NullName, NullName, TRUE,
                               "inH (/app/h.js:1:63)")
    [] id = "fH70" -> CallSite(H, 1, 70, "inH", NullName, NullName, TRUE,
                               "inH (/app/h.js:1:70)")
    [] id = "fH2" -> CallSite(H, 2, 70, "inH", NullName, NullName, TRUE,
                              "inH (/app/h.js:2:70)")
    [] id = "fHe" ->
         [CallSite(H, 1, 70, "evalH", NullName, NullName, TRUE, "evalH (/app/h.js:1:70)")
            EXCEPT !.eval = TRUE]
    [] id = "fK" -> CallSite(K, 1, 1, "inK", NullName, NullName, TRUE, "inK (/app/k.js:1:1)")
    [] id = "fNative" ->
         [CallSite(A, 1, 1, "map", "Array", "map", FALSE, "Array.map (native)")
            EXCEPT !.native = TRUE]
    [] id = "fEvalNested" ->
         [CallSite(Null, 1, 1, "evaled", NullName, NullName, TRUE,
                   "evaled (eval at foo (eval at bar (/app/a.js:1:1)), <anonymous>:1:1)")
            EXCEPT !.eval = TRUE, !.evalOrigin = Origin(<<"foo", "bar">>, A, 1, 1)]
    [] id = "fEval" ->
         [CallSite(Null, 1, 1, "evaled", NullName, NullName, TRUE,
                   "evaled (eval at foo (/app/a.js:1:1), <anonymous>:1:1)")
            EXCEPT !.eval = TRUE, !.evalOrigin = Origin(<<"foo">>, A, 1, 1)]

\* functionName.indexOf(typeName) = 0
StartsWithName(functionName, typeName) ==
  \/ functionName = typeName
  \/ functionName = "Foo.bar" /\ typeName = "Foo"

\* functionName.indexOf('.' + methodName) = functionName.length - methodName.length - 1
EndsWithMethod(functionName, methodName) ==
  functionName = "Foo.bar" /\ methodName = "bar"

toString(frame) ==
  LET fileName == IF frame.scriptName = Null THEN "" ELSE Join(frame.scriptName)
      origin == IF fileName = "" /\ frame.eval
                THEN (IF frame.evalOrigin = NoOrigin THEN ""
                      ELSE OriginText(frame.evalOrigin)) \o ", "
                ELSE ""
      named == origin \o (IF fileName # "" THEN fileName ELSE "<anonymous>")
      fileLocation ==
        IF frame.native THEN "native"
        ELSE IF frame.line = NoNumber THEN named
        ELSE named \o ":" \o ToString(frame.line)
             \o (IF frame.column = NoNumber THEN ""
                 ELSE ":" \o ToString(frame.column))
      functionName == frame.functionName
      isMethodCall == ~(frame.toplevel \/ frame.ctor)
  IN IF isMethodCall
     THEN (IF functionName # NullName
           THEN (IF frame.typeName # NullName
                    /\ ~StartsWithName(functionName, frame.typeName)
                 THEN frame.typeName \o "." ELSE "")
                \o functionName
                \o (IF frame.methodName # NullName
                       /\ ~EndsWithMethod(functionName, frame.methodName)
                    THEN " [as " \o frame.methodName \o "]" ELSE "")
           ELSE (IF frame.typeName = NullName THEN "" ELSE frame.typeName) \o "."
                \o (IF frame.methodName = NullName THEN "<anonymous>"
                    ELSE frame.methodName))
          \o " (" \o fileLocation \o ")"
     ELSE IF frame.ctor
     THEN "new " \o (IF functionName = NullName THEN "<anonymous>" ELSE functionName)
          \o " (" \o fileLocation \o ")"
     ELSE IF functionName # NullName
     THEN functionName \o " (" \o fileLocation \o ")"
     ELSE fileLocation

----------------------------------------------------------------------------
(* wrapCallSite                                                            *)

\* the test of line 336 on process.version
NoHeaderTest(version) == version \in {"v10.16.0", "v11.11.0", "v12.0.0", "v18.0.0"}

HeaderLength == 62

\* what wrapCallSite did with a frame: kind is the branch it took, position
\* what the mapper returned, shownName what the frame's getFunctionName
\* returned to the renderer
Wrapped(m, state, text, kind, position, shownName, threw) ==
  [m |-> m, state |-> state, text |-> text, kind |-> kind, position |-> position,
   shownName |-> shownName, threw |-> threw]

\* line 324
SourceOf(frame) == IF frame.fileName # Null THEN frame.fileName ELSE frame.scriptName

\* QueryColumn without the isEval test of line 338
QueryColumnEvalToo(frame) ==
  IF /\ frame.line = 1
     /\ frame.column - 1 > (IF NoHeaderTest(processVersion) THEN 0 ELSE HeaderLength)
  THEN frame.column - 1 - (IF NoHeaderTest(processVersion) THEN 0 ELSE HeaderLength)
  ELSE frame.column - 1

\* lines 329-340: the column handed to the mapper
QueryColumn(frame) ==
  IF /\ frame.line = 1
     /\ frame.column - 1 > (IF NoHeaderTest(processVersion) THEN 0 ELSE HeaderLength)
     /\ ~frame.eval
  THEN frame.column - 1 - (IF NoHeaderTest(processVersion) THEN 0 ELSE HeaderLength)
  ELSE frame.column - 1

\* ShownName without the carried-over position of lines 355-358
OwnFunctionName(frame, state) == frame.functionName

\* lines 354-359: the function name the rewritten frame reports
ShownName(frame, state) ==
  IF state.nextPosition = NullPosition THEN frame.functionName
  ELSE IF state.nextPosition.name # NullName THEN state.nextPosition.name
  ELSE frame.functionName

\* lines 352-364: the clone with its accessors overridden
Clone(frame, position, shown) ==
  [frame EXCEPT !.functionName = shown,
                !.fileName = position.source,
                !.line = position.line,
                !.column = position.column + 1,
                !.scriptName = position.source]

\* Rewritten with the unmapped frame rendered through the clone as well
RewrittenAlways(frame, state, r) ==
  IF r.threw
  THEN Wrapped(r.m, state, "", "threw", NullPosition, frame.functionName, TRUE)
  ELSE IF r.ret = NullPosition
  THEN Wrapped(r.m, state,
               toString([frame EXCEPT !.functionName = ShownName(frame, state)]),
               "unmapped", NullPosition, ShownName(frame, state), FALSE)
  ELSE Wrapped(r.m, [state EXCEPT !.curPosition = r.ret],
               toString(Clone(frame, r.ret, ShownName(frame, state))),
               "mapped", r.ret, ShownName(frame, state), FALSE)

\* lines 349-365, with r what mapSourcePosition returned
Rewritten(frame, state, r) ==
  IF r.threw
  THEN Wrapped(r.m, state, "", "threw", NullPosition, frame.functionName, TRUE)
  ELSE IF r.ret = NullPosition
  THEN Wrapped(r.m, state, frame.str, "unmapped", NullPosition, frame.functionName, FALSE)
  ELSE Wrapped(r.m, [state EXCEPT !.curPosition = r.ret],
               toString(Clone(frame, r.ret, ShownName(frame, state))),
               "mapped", r.ret, ShownName(frame, state), FALSE)

\* lines 371-374, with r what mapEvalOrigin returned
WithOrigin(frame, state, r) ==
  IF r.threw
  THEN Wrapped(r.m, state, "", "threw", NullPosition, frame.functionName, TRUE)
  ELSE Wrapped(r.m, state, toString([frame EXCEPT !.evalOrigin = r.ret]),
               "eval", NullPosition, frame.functionName, FALSE)

\* wrapCallSite without the native test of lines 314-318
wrapCallSiteNativeToo(m, frame, state) ==
  IF SourceOf(frame) # Null /\ frame.line # NoNumber /\ frame.column # NoNumber
  THEN Rewritten(frame, state,
                 mapSourcePosition(m, SourceOf(frame), frame.line, QueryColumn(frame)))
  ELSE Wrapped(m, state, frame.str, "verbatim", NullPosition, frame.functionName, FALSE)

wrapCallSite(m, frame, state) ==
  IF frame.native
  THEN Wrapped(m, [state EXCEPT !.curPosition = NullPosition], frame.str, "native",
               NullPosition, frame.functionName, FALSE)
  ELSE IF SourceOf(frame) # Null /\ frame.line # NoNumber /\ frame.column # NoNumber
  THEN Rewritten(frame, state,
                 mapSourcePosition(m, SourceOf(frame), frame.line, QueryColumn(frame)))
  ELSE IF frame.eval /\ frame.evalOrigin # NoOrigin
  THEN WithOrigin(frame, state, mapEvalOrigin(m, frame.evalOrigin))
  ELSE Wrapped(m, state, frame.str, "verbatim", NullPosition, frame.functionName, FALSE)

----------------------------------------------------------------------------
(* prepareStackTrace                                                       *)

CallStackFilter(err, stackTraces) ==
  IF customStackFilter = "default" THEN TRUE ELSE UserStackFilter(err, stackTraces)

NoState == [nextPosition |-> NullPosition, curPosition |-> NullPosition]

\* what the loop did with one frame (kind "pending": not reached):
\* nextPosition is state.nextPosition when the frame was handed to
\* wrapCallSite, fetched and retrieved the calls of the fetch hooks made for
\* it, cachesKept whether both caches are as they were before it
Entry(kind, position, shownName, text, nextPosition, fetched, retrieved, cachesKept) ==
  [kind |-> kind, position |-> position, shownName |-> shownName, text |-> text,
   nextPosition |-> nextPosition, fetched |-> fetched, retrieved |-> retrieved,
   cachesKept |-> cachesKept]

Pending == Entry("pending", NullPosition, NullName, "", NullPosition, <<>>, <<>>, TRUE)

\* Processed with the line appended in the order of processing
ProcessedInLoopOrder(acc, w, i) ==
  [m |-> w.m,
   state |-> [curPosition |-> w.state.curPosition, nextPosition |-> w.state.curPosition],
   processedStack |-> IF w.threw THEN acc.processedStack
                      ELSE [acc.processedStack EXCEPT
                              ![Len(acc.processedStack) - i + 1] = "\n    at " \o w.text],
   log |-> [acc.log EXCEPT ![i] =
              Entry(w.kind, w.position, w.shownName, w.text, acc.state.nextPosition,
                    SubSeq(w.m.fetchLog, Len(acc.m.fetchLog) + 1, Len(w.m.fetchLog)),
                    SubSeq(w.m.retrieveLog, Len(acc.m.retrieveLog) + 1,
                           Len(w.m.retrieveLog)),
                    w.m.fcc = acc.m.fcc /\ w.m.smc = acc.m.smc)],
   threw |-> w.threw]

\* lines 433-434, with w what wrapCallSite (or the frame itself) gave for frame i
Processed(acc, w, i) ==
  [m |-> w.m,
   state |-> [curPosition |-> w.state.curPosition, nextPosition |-> w.state.curPosition],
   processedStack |-> IF w.threw THEN acc.processedStack
                      ELSE [acc.processedStack EXCEPT ![i] = "\n    at " \o w.text],
   log |-> [acc.log EXCEPT ![i] =
              Entry(w.kind, w.position, w.shownName, w.text, acc.state.nextPosition,
                    SubSeq(w.m.fetchLog, Len(acc.m.fetchLog) + 1, Len(w.m.fetchLog)),
                    SubSeq(w.m.retrieveLog, Len(acc.m.retrieveLog) + 1,
                           Len(w.m.retrieveLog)),
                    w.m.fcc = acc.m.fcc /\ w.m.smc = acc.m.smc)],
   threw |-> w.threw]

\* the loop of lines 431-435, from frame i down to frame 1
RECURSIVE ProcessStack(_, _, _, _)
ProcessStack(acc, stackTraces, wrap, i) ==
  IF i < 1 \/ acc.threw THEN acc
  ELSE ProcessStack(
         Processed(acc,
                   IF wrap THEN wrapCallSite(acc.m, stackTraces[i], acc.state)
                   ELSE Wrapped(acc.m, acc.state, stackTraces[i].str, "unfiltered",
                                NullPosition, stackTraces[i].functionName, FALSE),
                   i),
         stackTraces, wrap, i - 1)

RECURSIVE JoinAll(_)
JoinAll(strings) == IF strings = <<>> THEN "" ELSE Head(strings) \o JoinAll(Tail(strings))

\* Emptied with both caches left as they are
NotEmptied(m) == m

\* the caches emptied (lines 417-418)
Emptied(m) == [m EXCEPT !.fcc = <<>>, !.smc = <<>>]

\* lines 421-423
ErrorString(err) ==
  (IF err.name = NullName THEN "Error" ELSE err.name) \o ": " \o err.message

\* lines 436-437, with done the loop's result
Assembled(err, done) ==
  [m |-> done.m, threw |-> done.threw,
   ret |-> IF done.threw THEN "" ELSE ErrorString(err) \o JoinAll(done.processedStack),
   lines |-> done.processedStack, log |-> done.log, err |-> err]

prepareStackTrace(m, err, stackTraces) ==
  Assembled(err,
            ProcessStack([m |-> IF emptyCacheBetweenOperations THEN Emptied(m) ELSE m,
                          state |-> NoState,
                          processedStack |-> [i \in 1..Len(stackTraces) |-> ""],
                          log |-> [i \in 1..Len(stackTraces) |-> Pending],
                          threw |-> FALSE],
                         stackTraces, CallStackFilter(err, stackTraces),
                         Len(stackTraces)))

----------------------------------------------------------------------------
(* getErrorSource                                                          *)

\* contents.split(/(?:\r\n|\r|\n)/).length
LineCount(contents) ==
  CASE contents = "tsA" -> 25
    [] contents = "tsE" -> 5
    [] contents = NullContent -> 0
    [] OTHER -> 3

RECURSIVE Spaces(_)
Spaces(n) == IF n <= 0 THEN "" ELSE " " \o Spaces(n - 1)

\* lines 117-123, with r the contents of source; line n of a file is shown
\* as <contents>#<n>
Snippet(source, line, column, r) ==
  IF r.ret = NullContent THEN [m |-> r.m, ret |-> NullContent]
  ELSE IF line < 1 \/ line > LineCount(r.ret) THEN [m |-> r.m, ret |-> NullContent]
  ELSE [m |-> r.m,
        ret |-> Join(source) \o ":" \o ToString(line) \o "\n"
                \o r.ret \o "#" \o ToString(line) \o "\n" \o Spaces(column - 1) \o "^"]

\* lines 110-123, for a stack whose first frame line reads (source:line:column)
getErrorSource(m, source, line, column) ==
  Snippet(source, line, column, retrieveFileCached(m, source))

----------------------------------------------------------------------------
(* The state machine                                                       *)

Machine ==
  [fcc |-> fileContentsCache, smc |-> sourceMapCache, fetchCount |-> fetchCount,
   retrieveCount |-> retrieveCount, fetchLog |-> <<>>, retrieveLog |-> <<>>]

\* the bound on the call counters
WithinBounds(m) ==
  /\ \A k \in DOMAIN m.fetchCount : m.fetchCount[k] <= MaxCalls
  /\ \A k \in DOMAIN m.retrieveCount : m.retrieveCount[k] <= MaxCalls

Commit(m) ==
  /\ WithinBounds(m)
  /\ fileContentsCache' = m.fcc
  /\ sourceMapCache' = m.smc
  /\ fetchCount' = m.fetchCount
  /\ retrieveCount' = m.retrieveCount

\* the module just loaded
Loaded ==
  /\ stackTracePrepared = FALSE
  /\ requireHooked = FALSE
  /\ uncaughtExceptionsHandled = FALSE
  /\ emptyCacheBetweenOperations = FALSE
  /\ customRetrieveSourceMap = "default"
  /\ customRetrieveFile = "default"
  /\ customPathSanitize = "default"
  /\ customStackFilter = "default"
  /\ fileContentsCache = <<>>
  /\ sourceMapCache = <<>>
  /\ fetchCount = <<>>
  /\ retrieveCount = <<>>
  /\ registrations = [formatter |-> 0, compile |-> 0, emit |-> 0]
  /\ lastOp = [op |-> "none"]

Init == Loaded /\ processVersion = "v18.0.0"

\* runtimes before and after the header was dropped
Versions == {"v8.0.0", "v10.15.0", "v18.0.0"}

InitColumn == Loaded /\ processVersion \in Versions

\* the options of an install() call; a hook option is "omitted" or "override"
Options(flush, uncaught, hook, rsm, rf, ps, sf) ==
  [emptyCacheBetweenOperations |-> flush, handleUncaughtExceptions |-> uncaught,
   hookRequire |-> hook, retrieveSourceMap |-> rsm, retrieveFile |-> rf,
   pathSanitize |-> ps, stackFilter |-> sf]

\* Install with the setting of line 77 taken from the options alone
InstallResetting(options) ==
  /\ customRetrieveSourceMap' =
       IF options.retrieveSourceMap = "omitted" THEN customRetrieveSourceMap
       ELSE options.retrieveSourceMap
  /\ customRetrieveFile' =
       IF options.retrieveFile = "omitted" THEN customRetrieveFile
       ELSE options.retrieveFile
  /\ customPathSanitize' =
       IF options.pathSanitize = "omitted" THEN customPathSanitize
       ELSE options.pathSanitize
  /\ customStackFilter' =
       IF options.stackFilter = "omitted" THEN customStackFilter
       ELSE options.stackFilter
  /\ emptyCacheBetweenOperations' = options.emptyCacheBetweenOperations
  /\ stackTracePrepared' = TRUE
  /\ requireHooked' = (requireHooked \/ options.hookRequire)
  /\ uncaughtExceptionsHandled' =
       (uncaughtExceptionsHandled \/ options.handleUncaughtExceptions)
  /\ registrations' =
       [formatter |-> registrations.formatter + (IF ~stackTracePrepared THEN 1 ELSE 0),
        compile |-> registrations.compile
                    + (IF options.hookRequire /\ ~requireHooked THEN 1 ELSE 0),
        emit |-> registrations.emit
                 + (IF options.handleUncaughtExceptions /\ ~uncaughtExceptionsHandled
                    THEN 1 ELSE 0)]
  /\ lastOp' = [op |-> "install", input |-> options]
  /\ UNCHANGED <<fileContentsCache, sourceMapCache, fetchCount, retrieveCount,
                 processVersion>>

\* Install without the tests of lines 79, 85 and 99
InstallUnguarded(options) ==
  /\ customRetrieveSourceMap' =
       IF options.retrieveSourceMap = "omitted" THEN customRetrieveSourceMap
       ELSE options.retrieveSourceMap
  /\ customRetrieveFile' =
       IF options.retrieveFile = "omitted" THEN customRetrieveFile
       ELSE options.retrieveFile
  /\ customPathSanitize' =
       IF options.pathSanitize = "omitted" THEN customPathSanitize
       ELSE options.pathSanitize
  /\ customStackFilter' =
       IF options.stackFilter = "omitted" THEN customStackFilter
       ELSE options.stackFilter
  /\ emptyCacheBetweenOperations' =
       (options.emptyCacheBetweenOperations \/ emptyCacheBetweenOperations)
  /\ stackTracePrepared' = TRUE
  /\ requireHooked' = (requireHooked \/ options.hookRequire)
  /\ uncaughtExceptionsHandled' =
       (uncaughtExceptionsHandled \/ options.handleUncaughtExceptions)
  /\ registrations' =
       [formatter |-> registrations.formatter + 1,
        compile |-> registrations.compile + (IF options.hookRequire THEN 1 ELSE 0),
        emit |-> registrations.emit
                 + (IF options.handleUncaughtExceptions THEN 1 ELSE 0)]
  /\ lastOp' = [op |-> "install", input |-> options]
  /\ UNCHANGED <<fileContentsCache, sourceMapCache, fetchCount, retrieveCount,
                 processVersion>>

Install(options) ==
  /\ customRetrieveSourceMap' =
       IF options.retrieveSourceMap = "omitted" THEN customRetrieveSourceMap
       ELSE options.retrieveSourceMap
  /\ customRetrieveFile' =
       IF options.retrieveFile = "omitted" THEN customRetrieveFile
       ELSE options.retrieveFile
  /\ customPathSanitize' =
       IF options.pathSanitize = "omitted" THEN customPathSanitize
       ELSE options.pathSanitize
  /\ customStackFilter' =
       IF options.stackFilter = "omitted" THEN customStackFilter
       ELSE options.stackFilter
  /\ emptyCacheBetweenOperations' =
       (options.emptyCacheBetweenOperations \/ emptyCacheBetweenOperations)
  /\ stackTracePrepared' = TRUE
  /\ requireHooked' = (requireHooked \/ options.hookRequire)
  /\ uncaughtExceptionsHandled' =
       (uncaughtExceptionsHandled \/ options.handleUncaughtExceptions)
  /\ registrations' =
       [formatter |-> registrations.formatter + (IF ~stackTracePrepared THEN 1 ELSE 0),
        compile |-> registrations.compile
                    + (IF options.hookRequire /\ ~requireHooked THEN 1 ELSE 0),
        emit |-> registrations.emit
                 + (IF options.handleUncaughtExceptions /\ ~uncaughtExceptionsHandled
                    THEN 1 ELSE 0)]
  /\ lastOp' = [op |-> "install", input |-> options]
  /\ UNCHANGED <<fileContentsCache, sourceMapCache, fetchCount, retrieveCount,
                 processVersion>>

\* ModuleCompile without the assignment of line 92
ModuleCompileKeepsMap(content, filename) ==
  /\ requireHooked
  /\ fileContentsCache' = Put(fileContentsCache, filename, content)
  /\ lastOp' = [op |-> "compile", input |-> <<content, filename>>]
  /\ UNCHANGED <<config, sourceMapCache, fetchCount, retrieveCount>>

\* the hooked Module.prototype._compile (lines 90-95)
ModuleCompile(content, filename) ==
  /\ requireHooked
  /\ fileContentsCache' = Put(fileContentsCache, filename, content)
  /\ sourceMapCache' = Put(sourceMapCache, filename, UndefinedMap)
  /\ lastOp' = [op |-> "compile", input |-> <<content, filename>>]
  /\ UNCHANGED <<config, fetchCount, retrieveCount>>

\* the operation's effect on the caches and its record in lastOp
Ran(op, input, r) ==
  /\ Commit(r.m)
  /\ lastOp' = [op |-> op, input |-> input, r |-> [r EXCEPT !.m = "committed"],
                fetched |-> r.m.fetchLog, retrieved |-> r.m.retrieveLog,
                flushed |-> op = "prepareStackTrace" /\ emptyCacheBetweenOperations]
  /\ UNCHANGED config

\* Error.prepareStackTrace, called by the host once install() has set it;
\* ids names the call sites of the stack, innermost first
PrepareStackTrace(err, ids) ==
  /\ stackTracePrepared
  /\ Ran("prepareStackTrace", ids,
         prepareStackTrace(Machine, err, [i \in 1..Len(ids) |-> CallSiteOf(ids[i])]))

GetErrorSource(source, line, column) ==
  Ran("getErrorSource", <<source, line, column>>,
      getErrorSource(Machine, source, line, column))

RetrieveSourceMapURL(source) ==
  Ran("retrieveSourceMapURL", source, retrieveSourceMapURL(Machine, source))

RetrieveSourceMap(source) ==
  Ran("retrieveSourceMap", source, retrieveSourceMap(Machine, source))

\* supportRelativeURL, as retrieveSourceMap and mapSourcePosition call it
SupportRelativeURL(file, url) ==
  /\ lastOp' = [op |-> "supportRelativeURL", input |-> <<file, url>>,
                r |-> [ret |-> supportRelativeURL(file, url)]]
  /\ UNCHANGED <<config, fileContentsCache, sourceMapCache, fetchCount, retrieveCount>>

\* mapEvalOrigin, as wrapCallSite calls it for an eval frame
MapEvalOrigin(origin) == Ran("mapEvalOrigin", origin, mapEvalOrigin(Machine, origin))

----------------------------------------------------------------------------
(* The inputs the operations are tried on, and the specifications.         *)

TestError == [name |-> NullName, message |-> "test"]
NamedError == [name |-> "TypeError", message |-> "boom"]

Plain == Options(FALSE, TRUE, FALSE, "omitted", "omitted", "omitted", "omitted")
Flushing == [Plain EXCEPT !.emptyCacheBetweenOperations = TRUE]
Hooking == [Plain EXCEPT !.hookRequire = TRUE]
Quiet == [Plain EXCEPT !.handleUncaughtExceptions = FALSE]
QuietHooking == [Quiet EXCEPT !.hookRequire = TRUE]
OverridingFetch == [Plain EXCEPT !.retrieveFile = "override", !.retrieveSourceMap = "override"]
OverridingSanitize == [Plain EXCEPT !.pathSanitize = "override"]
OverridingFilter == [Plain EXCEPT !.stackFilter = "override"]

\* the stacks of at most n call sites drawn from ids
RECURSIVE StacksOf(_, _)
StacksOf(ids, n) ==
  IF n = 0 THEN {<<>>}
  ELSE LET shorter == StacksOf(ids, n - 1) IN
       shorter \cup {Append(st, f) : st \in {x \in shorter : Len(x) = n - 1}, f \in ids}

\* Spec: traces through a mapped file and an unmapped one, snippets
Next ==
  \/ Install(Plain)
  \/ \E ids \in StacksOf({"fA1", "fA2", "fA3", "fC", "fNative"}, MaxFrames) :
       PrepareStackTrace(TestError, ids)
  \/ \E i \in { <<<<"", "app", "a.ts">>, 10, 5>>, <<M, 1, 1>> } :
       GetErrorSource(i[1], i[2], i[3])

Spec == Init /\ [][Next]_vars

\* SpecFlush: the same operations with and without emptyCacheBetweenOperations
NextFlush ==
  \/ \E options \in {Plain, Flushing} : Install(options)
  \/ \E ids \in StacksOf({"fA1", "fC"}, MaxFrames) : PrepareStackTrace(TestError, ids)
  \/ GetErrorSource(M, 1, 1)

SpecFlush == Init /\ [][NextFlush]_vars

\* SpecEmbedded: traces through a file named by path and by file: URL, and
\* snippets of the source its map embeds
NextEmbedded ==
  \/ Install(Plain)
  \/ \E ids \in StacksOf({"fA1", "fA3", "fFA1"}, MaxFrames) :
       PrepareStackTrace(TestError, ids)
  \/ \E source \in { <<"", "app", "a.ts">>, <<"file:", "", "", "app", "a.ts">> } :
       \E line \in {10, 30} : GetErrorSource(source, line, 5)

SpecEmbedded == Init /\ [][NextEmbedded]_vars

\* SpecEval: eval origins of every shape, alone and in the frames of a trace
EvalOrigins ==
  { Origin(<<"foo">>, A, 1, 1), Origin(<<"foo", "bar">>, A, 1, 1),
    Origin(<<"foo", "bar", "baz">>, A, 2, 9), Origin(<<"foo">>, A, 3, 5),
    Origin(<<"foo", "bar">>, C, 1, 1), Origin(<<"foo">>, Null, NoNumber, NoNumber),
    Origin(<<>>, A, 1, 1), NoOrigin }

NextEval ==
  \/ Install(Plain)
  \/ \E ids \in StacksOf({"fEval", "fEvalNested", "fC"}, MaxFrames) :
       PrepareStackTrace(TestError, ids)
  \/ \E origin \in EvalOrigins : MapEvalOrigin(origin)

SpecEval == Init /\ [][NextEval]_vars

\* SpecRelative: supportRelativeURL on referrers and URLs of every kind
Referrers ==
  { Null, A, FA, <<"", "a.js">>, <<"", "app", "sub", "a.js">>, <<"a.js">>,
    <<"http:", "", "host", "dir", "a.js">>, <<"http:", "", "host", "a.js">>,
    <<"file:", "", "", "C:", "dir", "a.js">>, <<"", "app", "a.js.map">> }

Urls ==
  { <<"a.js.map">>, <<"..", "x.map">>, <<".", "x.map">>, <<"sub", "x.map">>, <<"a.ts">>,
    <<"", "abs", "x.map">>, <<"", "x.map">>, <<"", "app", "a.ts">>,
    <<"http:", "", "cdn", "x.map">>, <<"file:", "", "", "abs", "x.map">>,
    <<"http:", "", "host", "dir", "x.map">> }

NextRelative == \E file \in Referrers : \E url \in Urls : SupportRelativeURL(file, url)

SpecRelative == Init /\ [][NextRelative]_vars

\* SpecDeep: stacks one frame longer, so that an unmapped frame can stand
\* between two mapped ones
NextDeep ==
  \/ Install(Plain)
  \/ \E err \in {TestError, NamedError} :
       \E ids \in StacksOf({"fA1", "fA2", "fC"}, MaxFrames + 1) :
          PrepareStackTrace(err, ids)

SpecDeep == Init /\ [][NextDeep]_vars

\* SpecColumn: frames at the columns around the header length, on runtimes
\* with and without the header
NextColumn ==
  \/ Install(Plain)
  \/ \E ids \in StacksOf({"fH1", "fH63", "fH70", "fH2", "fHe"}, MaxFrames) :
       PrepareStackTrace(TestError, ids)

SpecColumn == InitColumn /\ [][NextColumn]_vars

\* SpecInstall: install() called again and again with different options
NextInstall ==
  \/ \E options \in {Plain, Flushing, OverridingFetch, OverridingSanitize,
                      OverridingFilter} : Install(options)
  \/ \E err \in {TestError, NamedError} : PrepareStackTrace(err, <<"fC">>)

SpecInstall == Init /\ [][NextInstall]_vars

\* SpecGuards: install() called again and again, asking for the hooks or not
NextGuards ==
  \/ \E options \in {Plain, Quiet, Hooking, QuietHooking} : Install(options)
  \/ \E i \in { <<"jsC", C>>, <<"jsCinline", C>> } : ModuleCompile(i[1], i[2])
  \/ PrepareStackTrace(TestError, <<"fC">>)

SpecGuards == Init /\ [][NextGuards]_vars

\* SpecHook: a file without a map, recompiled through the module-load hook
\* with and without an inline map
NextHook ==
  \/ \E options \in {Plain, Hooking, Flushing} : Install(options)
  \/ \E i \in { <<"jsC", C>>, <<"jsCinline", C>> } : ModuleCompile(i[1], i[2])
  \/ \E ids \in StacksOf({"fC", "fA3"}, MaxFrames) : PrepareStackTrace(TestError, ids)

SpecHook == Init /\ [][NextHook]_vars

\* SpecLocator: the two locator functions on files with every form of comment
NextLocator ==
  \/ \E source \in {A, FA, B, C, CPadded, E, F, M} : RetrieveSourceMapURL(source)
  \/ \E source \in {A, B, C, E, F, G, M} : RetrieveSourceMap(source)

SpecLocator == Init /\ [][NextLocator]_vars

\* SpecFaulty: traces through files whose map cannot be located or built
NextFaulty ==
  \/ Install(Plain)
  \/ \E ids \in StacksOf({"fA1", "fB", "fD"}, MaxFrames) : PrepareStackTrace(TestError, ids)

SpecFaulty == Init /\ [][NextFaulty]_vars

----------------------------------------------------------------------------
(* The claims.  A trace-format call is read off lastOp: its stack (the     *)
(* names of its call sites), the lines it produced and its log.            *)

IsTrace == lastOp.op = "prepareStackTrace"

TraceFrame(i) == CallSiteOf(lastOp.input[i])

TraceEntry(i) == lastOp.r.log[i]

TraceIndices == IF IsTrace THEN 1..Len(lastOp.input) ELSE {}

\* the frame was handed to wrapCallSite, which returned
Rewrote(i) == TraceEntry(i).kind \in {"native", "mapped", "unmapped", "eval", "verbatim"}

HasCoordinates(frame) ==
  SourceOf(frame) # Null /\ frame.line # NoNumber /\ frame.column # NoNumber

Range(seq) == {seq[i] : i \in DOMAIN seq}

\* the keys under which the map cached for file put its embedded sources
EmbeddedBy(file) ==
  IF sourceMapCache[file].kind # "map" THEN {}
  ELSE {supportRelativeURL(sourceMapCache[file].url, src) :
          src \in {x \in Range(MapSources(sourceMapCache[file].map)) :
                     sourceContentFor(sourceMapCache[file].map, x) # NullContent}}

\* the magic comments in the text of a file on disk, first to last
MagicComments(source) == SelectSeq(Text(Disk(pathSanitize(source))), IsMagicComment)

LastComment(source) == MagicComments(source)[Len(MagicComments(source))]

\* C1: while emptyCacheBetweenOperations is off and the module-load hook is
\* not enabled, customRetrieveFile has been called at most once for every
\* sanitized path, whatever the first call returned, and the path it was
\* called for is remembered in the file-contents cache.
C1_FetchedAtMostOnce ==
  (~emptyCacheBetweenOperations /\ ~requireHooked) =>
     \A p \in DOMAIN fetchCount :
        fetchCount[p] <= 1 /\ p \in DOMAIN fileContentsCache

\* a second getErrorSource for a missing file: null is remembered, no fetch
C1_Witness ==
  /\ lastOp.op = "getErrorSource"
  /\ lastOp.input[1] = M
  /\ lastOp.fetched = <<>>
  /\ M \in DOMAIN fetchCount
  /\ fetchCount[M] = 1
  /\ fileContentsCache[M] = NullContent
  /\ ~emptyCacheBetweenOperations

C13_EmbeddedServed ==
  (/\ lastOp.op = "getErrorSource"
   /\ lastOp.input[2] = 10
   /\ \E file \in DOMAIN sourceMapCache : lastOp.input[1] \in EmbeddedBy(file))
  => /\ lastOp.fetched = <<>>
     /\ lastOp.r.ret = Join(lastOp.input[1]) \o ":10\ntsA#10\n    ^"

C4_LastCommentWins ==
  (lastOp.op = "retrieveSourceMapURL" /\ Len(MagicComments(lastOp.input)) >= 2)
  => lastOp.r.ret = LastComment(lastOp.input).url

\* C5: when the last magic comment of a file is in block form,
\* retrieveSourceMapURL returns its URL, and retrieveSourceMap returns the
\* map read from that URL resolved against the file.
C5_BlockFormLocated ==
  /\ (/\ lastOp.op = "retrieveSourceMapURL"
      /\ MagicComments(lastOp.input) # <<>>
      /\ LastComment(lastOp.input).form = "block")
     => lastOp.r.ret = LastComment(lastOp.input).url
  /\ (/\ lastOp.op = "retrieveSourceMap"
      /\ MagicComments(lastOp.input) # <<>>
      /\ LastComment(lastOp.input).form = "block"
      /\ Disk(pathResolve(pathDirname(lastOp.input), LastComment(lastOp.input).url))
           # NullContent)
     => /\ ~lastOp.r.threw
        /\ lastOp.r.ret.map =
             Disk(pathResolve(pathDirname(lastOp.input), LastComment(lastOp.input).url))

\* C11: retrieveSourceMap of a file whose last magic comment (line or legacy
\* form) carries a base64 JSON data URL returns the decoded payload with the
\* file itself as url, and fetches no file but the generated one; with any
\* other URL it fetches the URL resolved against the file's directory through
\* the file-contents cache and returns the text found there with the
\* resolved URL, or null when there is none.
C11_DataUrlOrFetched ==
  (/\ lastOp.op = "retrieveSourceMap"
   /\ MagicComments(lastOp.input) # <<>>
   /\ LastComment(lastOp.input).form # "block")
  => IF LastComment(lastOp.input).url[1] = "data:application"
     THEN /\ ~lastOp.r.threw
          /\ lastOp.r.ret = [url |-> lastOp.input, map |-> "mapE"]
          /\ Range(lastOp.fetched) \subseteq {lastOp.input}
          /\ DOMAIN fileContentsCache \cap {<<"", "app", "old.map">>, DataE} = {}
     ELSE /\ ~lastOp.r.threw
          /\ <<"", "app">> \o LastComment(lastOp.input).url \in DOMAIN fileContentsCache
          /\ lastOp.r.ret =
                IF Disk(<<"", "app">> \o LastComment(lastOp.input).url) = NullContent
                THEN NoRaw
                ELSE [url |-> <<"", "app">> \o LastComment(lastOp.input).url,
                      map |-> Disk(<<"", "app">> \o LastComment(lastOp.input).url)]

\* the inline map of /app/e.js, read with one fetch, that of e.js itself
C11_Witness ==
  /\ lastOp.op = "retrieveSourceMap"
  /\ lastOp.input = E
  /\ lastOp.fetched = <<E>>
  /\ lastOp.r.ret = [url |-> E, map |-> "mapE"]

\* C6: a frame at a generated position (L, C) that the map of its file maps
\* to (source, L', C', name) gets from mapSourcePosition exactly L', C' and
\* name, and the source resolved against the directory of the map's URL
\* (for /app/a.js, whose map is /app/a.js.map: /app/<source>), both when
\* the map is built for this frame and when it comes from the cache.
C6_RoundTrip ==
  \A i \in TraceIndices :
     (Rewrote(i) /\ ~TraceFrame(i).native /\ HasCoordinates(TraceFrame(i))
      /\ CachedMap(sourceMapCache, SourceOf(TraceFrame(i))).kind = "map") =>
       \A s \in Mappings(sourceMapCache[SourceOf(TraceFrame(i))].map) :
          (s.gl = TraceFrame(i).line /\ s.gc = TraceFrame(i).column - 1
           /\ s.source # Null)
          => /\ TraceEntry(i).position.line = s.ol
             /\ TraceEntry(i).position.column = s.oc
             /\ TraceEntry(i).position.name = s.name
             /\ TraceEntry(i).position.source =
                  pathResolve(pathDirname(sourceMapCache[SourceOf(TraceFrame(i))].url),
                              s.source)
             /\ (SourceOf(TraceFrame(i)) = A =>
                   TraceEntry(i).position.source = <<"", "app">> \o s.source)

\* the same frame twice in one stack: the map built for one, cached for the other
C6_Witness ==
  /\ IsTrace
  /\ lastOp.input = <<"fA1", "fA1">>
  /\ TraceEntry(2).retrieved = <<A>>
  /\ TraceEntry(1).retrieved = <<>>
  /\ TraceEntry(1).position =
       [source |-> <<"", "app", "a.ts">>, line |-> 10, column |-> 4, name |-> "realFn"]
  /\ TraceEntry(2).position = TraceEntry(1).position

\* C7: a frame that is not native, has a file, a line and a column, and for
\* which the mapper returned null is emitted as its own rendering, verbatim.
C7_UnmappedVerbatim ==
  \A i \in TraceIndices :
     (Rewrote(i) /\ ~TraceFrame(i).native /\ HasCoordinates(TraceFrame(i))
      /\ TraceEntry(i).position = NullPosition)
     => lastOp.r.lines[i] = "\n    at " \o TraceFrame(i).str

\* a file without a map and a position the map gives no source for, each
\* rewritten after a mapped frame that names a function
C7_Witness ==
  /\ IsTrace
  /\ lastOp.input \in {<<"fC", "fA1">>, <<"fA3", "fA1">>}
  /\ TraceEntry(2).kind = "mapped"
  /\ TraceEntry(1).position = NullPosition
  /\ lastOp.r.lines[1] \in {"\n    at inC (/app/c.js:1:1)", "\n    at plain (/app/a.js:3:5)"}

\* C8: a native frame is emitted as its own rendering, and rewriting it
\* calls neither fetch hook and leaves both caches as they were.
C8_NativePassthrough ==
  \A i \in TraceIndices :
     (TraceFrame(i).native /\ TraceEntry(i).kind # "pending")
     => /\ lastOp.r.lines[i] = "\n    at " \o TraceFrame(i).str
        /\ TraceEntry(i).position = NullPosition
        /\ TraceEntry(i).fetched = <<>>
        /\ TraceEntry(i).retrieved = <<>>
        /\ TraceEntry(i).cachesKept

\* a native frame of /app/a.js, rewritten while the map of /app/a.js is cached
C8_Witness ==
  /\ IsTrace
  /\ lastOp.input = <<"fA1", "fNative">>
  /\ ~lastOp.flushed
  /\ lastOp.retrieved = <<>>
  /\ TraceEntry(1).kind = "mapped"
  /\ lastOp.r.lines[2] = "\n    at Array.map (native)"

\* C9: a trace-format step that finds the null sentinel cached for a file and
\* does not empty the caches does not call customRetrieveSourceMap for that
\* file, gives null for every frame of it and leaves the sentinel; and a
\* frame for which the retrieval was called and gave no map leaves the
\* sentinel in the source-map cache.
C9_AbsenceCached ==
  [][IsTrace' =>
       /\ \A file \in DOMAIN sourceMapCache :
             (sourceMapCache[file].kind = "null" /\ ~lastOp'.flushed)
             => /\ file \notin Range(lastOp'.retrieved)
                /\ sourceMapCache'[file] = NullMap
                /\ \A i \in TraceIndices' :
                      SourceOf(TraceFrame(i)') = file =>
                         /\ TraceEntry(i)'.position = NullPosition
                         /\ lastOp'.r.lines[i] = "\n    at " \o TraceFrame(i)'.str
       /\ \A i \in TraceIndices' :
             (/\ TraceEntry(i)'.retrieved # <<>>
              /\ TraceEntry(i)'.kind = "unmapped"
              /\ CachedMap(sourceMapCache', SourceOf(TraceFrame(i)')).kind # "map")
             => CachedMap(sourceMapCache', SourceOf(TraceFrame(i)')) = NullMap
    ]_vars

\* a later trace through /app/c.js, which has no map: no retrieval
C9_Witness ==
  /\ IsTrace
  /\ lastOp.input = <<"fC">>
  /\ ~lastOp.flushed
  /\ lastOp.retrieved = <<>>
  /\ C \in DOMAIN retrieveCount
  /\ retrieveCount[C] = 1
  /\ sourceMapCache[C] = NullMap
  /\ lastOp.r.lines = << "\n    at inC (/app/c.js:1:1)" >>

\* C10: a trace through a file whose map payload is not a source map (here
\* /app/d.js, and no frame of /app/b.js) is formatted all the same: the
\* call returns, and the frames of that file are rendered as they were.
C10_MalformedMapTolerated ==
  (IsTrace /\ "fD" \in Range(lastOp.input) /\ "fB" \notin Range(lastOp.input)) =>
     /\ ~lastOp.r.threw
     /\ \A i \in TraceIndices :
           lastOp.input[i] = "fD" => lastOp.r.lines[i] = "\n    at " \o TraceFrame(i).str

EvalTarget(o) ==
  IF o.labels = <<>> \/ o.file = Null THEN {}
  ELSE IF CachedMap(sourceMapCache, o.file).kind # "map" THEN {}
  ELSE {s \in Mappings(sourceMapCache[o.file].map) :
          s.gl = o.line /\ s.gc = o.column - 1 /\ s.source # Null}

\* C14: mapEvalOrigin keeps every "eval at <label> (" envelope of its input;
\* when the innermost text is file:line:col and the map of file maps
\* (line, col - 1) to (source, L, C), the innermost text becomes
\* source:L:C+1, the source resolved against the map; when the innermost
\* position has no mapping, or the input has neither shape, the input is
\* returned as it is.
C14_EvalOrigin ==
  lastOp.op = "mapEvalOrigin" =>
     /\ ~lastOp.r.threw
     /\ lastOp.r.ret.labels = lastOp.input.labels
     /\ \A s \in EvalTarget(lastOp.input) :
           /\ lastOp.r.ret =
                Origin(lastOp.input.labels, <<"", "app">> \o s.source, s.ol, s.oc + 1)
           /\ OriginText(lastOp.r.ret) # OriginText(lastOp.input)
     /\ EvalTarget(lastOp.input) = {} => lastOp.r.ret = lastOp.input

\* a doubly nested origin in a mapped file
C14_Witness ==
  /\ lastOp.op = "mapEvalOrigin"
  /\ OriginText(lastOp.input) = "eval at foo (eval at bar (/app/a.js:1:1))"
  /\ OriginText(lastOp.r.ret) = "eval at foo (eval at bar (/app/a.ts:10:5))"

\* a URL with a scheme://host prefix, or an absolute path
IsAbsoluteUrl(url) == IsSchemeSeg(url[1]) \/ IsAbsolute(url)

\* C15: supportRelativeURL returns an absolute url (one with a scheme://host
\* prefix, or an absolute path) as it is, whatever the referrer, and returns
\* any url as it is when the referrer is null.
C15_AbsoluteUnchanged ==
  lastOp.op = "supportRelativeURL" =>
     ((lastOp.input[1] = Null \/ IsAbsoluteUrl(lastOp.input[2]))
        => lastOp.r.ret = lastOp.input[2])

\* C16 as stated: a map built and cached for a file stays in the source-map
\* cache through every step but a trace-format step that empties the caches.
C16_OnlyFlushDestroys ==
  [][\A file \in DOMAIN sourceMapCache :
        (sourceMapCache[file].kind = "map" /\ ~(IsTrace' /\ lastOp'.flushed))
        => CachedMap(sourceMapCache', file) = sourceMapCache[file]
    ]_vars

\* C16 amended: a map built and cached for a file stays in the source-map
\* cache, and customRetrieveSourceMap is not called for the file again,
\* through every step but a trace-format step that empties the caches and a
\* module load of that file under the module-load hook.
C16_FlushOrLoadDestroys ==
  [][\A file \in DOMAIN sourceMapCache :
        (/\ sourceMapCache[file].kind = "map"
         /\ ~(IsTrace' /\ lastOp'.flushed)
         /\ ~(lastOp'.op = "compile" /\ lastOp'.input[2] = file))
        => /\ CachedMap(sourceMapCache', file) = sourceMapCache[file]
           /\ IsTrace' => file \notin Range(lastOp'.retrieved)
    ]_vars

\* the map built from the inline comment of /app/c.js, used again by a later trace
C16_Witness ==
  /\ IsTrace
  /\ ~lastOp.flushed
  /\ lastOp.input = <<"fC">>
  /\ lastOp.retrieved = <<>>
  /\ sourceMapCache[C] = BuiltMap(C, "mapE")
  /\ TraceEntry(1).kind = "mapped"

\* C17: a mapped frame rewritten right after a frame that is not native, has
\* file, line and column and got no position from the mapper is handed no
\* position to take a name from, and is shown with its own function name.
C17_UnmappedClearsState ==
  \A i \in TraceIndices :
     (/\ i + 1 \in TraceIndices
      /\ Rewrote(i + 1)
      /\ ~TraceFrame(i + 1).native
      /\ HasCoordinates(TraceFrame(i + 1))
      /\ TraceEntry(i + 1).position = NullPosition
      /\ TraceEntry(i).kind = "mapped")
     => /\ TraceEntry(i).nextPosition = NullPosition
        /\ TraceEntry(i).shownName = TraceFrame(i).functionName

\* C18: prepareStackTrace returns "<name>: <message>", with "Error" for a
\* missing name, followed by one line per frame of its input: line k is
\* "\n    at " and the rendering of frame k (its own text, or the text of
\* its clone at the position mapped for it), in the order of the input.
C18_HeaderAndOrder ==
  (IsTrace /\ ~lastOp.r.threw) =>
     /\ Len(lastOp.r.lines) = Len(lastOp.input)
     /\ lastOp.r.ret =
          (IF lastOp.r.err.name = NullName THEN "Error" ELSE lastOp.r.err.name)
          \o ": " \o lastOp.r.err.message \o JoinAll(lastOp.r.lines)
     /\ \A k \in TraceIndices :
           lastOp.r.lines[k] =
             "\n    at " \o
             (IF TraceEntry(k).kind = "mapped"
              THEN toString(Clone(TraceFrame(k), TraceEntry(k).position,
                                  TraceEntry(k).shownName))
              ELSE TraceFrame(k).str)

\* three different frames under a named error, rendered first to last
C18_Witness ==
  /\ IsTrace
  /\ lastOp.input = <<"fC", "fA1", "fA2">>
  /\ lastOp.r.ret = "TypeError: boom\n    at inC (/app/c.js:1:1)"
                      \o "\n    at helper (/app/a.ts:10:5)"
                      \o "\n    at Foo.callerFn [as run] (/app/a.ts:21:1)"

\* the column the claim has the mapper queried with for a frame
ClaimedColumn(frame) ==
  IF /\ processVersion \in {"v8.0.0", "v10.15.0"}
     /\ frame.line = 1
     /\ frame.column - 1 > 62
     /\ ~frame.eval
  THEN frame.column - 1 - 62
  ELSE frame.column - 1

\* the mapping the map of /app/h.js has for a line and a column
SegmentAt(line, column) ==
  {s \in Mappings("mapH") :
     /\ s.gl = line /\ s.gc <= column
     /\ \A t \in Mappings("mapH") : (t.gl = line /\ t.gc <= column) => t.gc <= s.gc}

\* C19: a frame of /app/h.js at line l and column c is mapped by the entry
\* of the map for (l, c - 1), less 62 only on a runtime with the header, on
\* line 1, when c - 1 > 62 and the frame is no eval frame; that column is
\* never negative, and the frame is shown at the mapped line and the mapped
\* column plus 1.
C19_QueriedColumn ==
  \A i \in TraceIndices :
     (Rewrote(i) /\ SourceOf(TraceFrame(i)) = H) =>
        /\ ClaimedColumn(TraceFrame(i)) >= 0
        /\ SegmentAt(TraceFrame(i).line, ClaimedColumn(TraceFrame(i))) # {}
        /\ \A s \in SegmentAt(TraceFrame(i).line, ClaimedColumn(TraceFrame(i))) :
              /\ TraceEntry(i).position.line = s.ol
              /\ TraceEntry(i).position.column = s.oc
              /\ lastOp.r.lines[i] =
                   "\n    at " \o TraceFrame(i).functionName \o " (/app/h.ts:"
                   \o ToString(s.ol) \o ":" \o ToString(s.oc + 1) \o ")"

\* column 70 of line 1 on a runtime with the header: queried at 7, and the
\* eval frame at the same place queried at 69
C19_Witness ==
  /\ IsTrace
  /\ processVersion = "v8.0.0"
  /\ lastOp.input = <<"fH70", "fHe">>
  /\ lastOp.r.lines = << "\n    at inH (/app/h.ts:2:11)", "\n    at evalH (/app/h.ts:4:31)" >>

\* C20: emptyCacheBetweenOperations, once on, stays on through every step,
\* install() calls that pass false or nothing included; an install() call
\* that passes true turns it on; and an install() call that omits an
\* override leaves the hook as it was, a set override included.
C20_StickySettings ==
  [][/\ emptyCacheBetweenOperations => emptyCacheBetweenOperations'
     /\ lastOp'.op = "install" =>
          /\ lastOp'.input.emptyCacheBetweenOperations => emptyCacheBetweenOperations'
          /\ lastOp'.input.retrieveFile = "omitted" =>
                customRetrieveFile' = customRetrieveFile
          /\ lastOp'.input.retrieveSourceMap = "omitted" =>
                customRetrieveSourceMap' = customRetrieveSourceMap
          /\ lastOp'.input.pathSanitize = "omitted" =>
                customPathSanitize' = customPathSanitize
          /\ lastOp'.input.stackFilter = "omitted" =>
                customStackFilter' = customStackFilter
    ]_vars

\* everything set by earlier calls, after a call that sets nothing
C20_Witness ==
  /\ lastOp.op = "install"
  /\ lastOp.input = Plain
  /\ emptyCacheBetweenOperations
  /\ customRetrieveFile = "override"
  /\ customRetrieveSourceMap = "override"
  /\ customPathSanitize = "override"
  /\ customStackFilter = "override"

\* C21: install() sets Error.prepareStackTrace at most once, wraps
\* Module.prototype._compile at most once and wraps process.emit at most
\* once, each exactly when its flag is set; and no step, an install() call
\* that passes handleUncaughtExceptions = false or hookRequire = false
\* included, clears a flag or takes a registration back.
C21_InstalledOnce ==
  [][/\ registrations'.formatter = (IF stackTracePrepared' THEN 1 ELSE 0)
     /\ registrations'.compile = (IF requireHooked' THEN 1 ELSE 0)
     /\ registrations'.emit = (IF uncaughtExceptionsHandled' THEN 1 ELSE 0)
     /\ stackTracePrepared => stackTracePrepared'
     /\ requireHooked => requireHooked'
     /\ uncaughtExceptionsHandled => uncaughtExceptionsHandled'
     /\ registrations.formatter <= registrations'.formatter
     /\ registrations.compile <= registrations'.compile
     /\ registrations.emit <= registrations'.emit
    ]_vars

\* both hooks still in place right after a call that asked for neither
C21_Witness ==
  /\ lastOp.op = "install"
  /\ lastOp.input = Quiet
  /\ registrations = [formatter |-> 1, compile |-> 1, emit |-> 1]
  /\ requireHooked
  /\ uncaughtExceptionsHandled
  /\ stackTracePrepared

====
